---- MODULE Spec2Model ----
(***************************************************************************)
(* Model of the ServerlessOpenapiTypeScript plugin                         *)
(* (src/src/serverless-openapi-typescript.js).                             *)
(*                                                                         *)
(* Strings the code transforms or concatenates (method names, function     *)
(* names, model names) are sequences of one-character strings, so that     *)
(* toLowerCase, upperFirst and template concatenation are computed.        *)
(* Strings the code only compares or copies (object keys, descriptions,    *)
(* parameter names) are plain strings.                                     *)
(* A JavaScript object is a function from its own keys to their values;    *)
(* an absent key is a key outside the DOMAIN.                              *)
(***************************************************************************)
EXTENDS Integers, Sequences, FiniteSets, TLC

\* ------------------------------------------------------------------ bounds

\* http and non-http events declared in the whole service (multi-function services)
MaxEvents == 2

\* ------------------------------------------------------- string primitives

UpperCaseLetters ==
  <<"A","B","C","D","E","F","G","H","I","J","K","L","M",
    "N","O","P","Q","R","S","T","U","V","W","X","Y","Z">>

LowerCaseLetters ==
  <<"a","b","c","d","e","f","g","h","i","j","k","l","m",
    "n","o","p","q","r","s","t","u","v","w","x","y","z">>

toLowerCaseChar(c) ==
  IF \E i \in 1..Len(UpperCaseLetters) : UpperCaseLetters[i] = c
  THEN LowerCaseLetters[CHOOSE i \in 1..Len(UpperCaseLetters) : UpperCaseLetters[i] = c]
  ELSE c

toUpperCaseChar(c) ==
  IF \E i \in 1..Len(LowerCaseLetters) : LowerCaseLetters[i] = c
  THEN UpperCaseLetters[CHOOSE i \in 1..Len(LowerCaseLetters) : LowerCaseLetters[i] = c]
  ELSE c

\* toLowerCase left out: the method compared as written.
toLowerCaseOmitted(s) == s

\* String.prototype.toLowerCase
toLowerCase(s) == [i \in 1..Len(s) |-> toLowerCaseChar(s[i])]

\* lodash upperFirst: the first character upper-cased, the rest untouched
upperFirst(s) == IF s = <<>> THEN s ELSE <<toUpperCaseChar(s[1])>> \o Tail(s)

RequestBodySuffix == <<".","R","e","q","u","e","s","t",".","B","o","d","y">>
ResponseSuffix == <<".","R","e","s","p","o","n","s","e">>

\* `${apiNamespace}.${upperFirst(functionName)}`
definitionPrefix(apiNamespace, functionName) ==
  apiNamespace \o <<".">> \o upperFirst(functionName)

\* --------------------------------------------------------- object helpers

EmptyObject == [k \in {} |-> ""]

Has(obj, key) == key \in DOMAIN obj

\* lodash set(obj, key, value) / obj[key] = value on an existing object
SetKey(obj, key, value) ==
  [k \in DOMAIN obj \cup {key} |-> IF k = key THEN value ELSE obj[k]]

\* Object.assign(target, source): own keys of source overwrite target's
ObjectAssign(target, source) ==
  [k \in DOMAIN target \cup DOMAIN source |->
     IF k \in DOMAIN source THEN source[k] ELSE target[k]]

\* A ParamDoc `schema` is a model-name string or an (opaque) schema object.
SchemaString(name) == [typeof |-> "string", value |-> name]
SchemaObject(content) == [typeof |-> "object", value |-> content]

\* { type: 'string' }
DefaultParamSchema == SchemaObject(<<"type", "string">>)

\* ------------------------------------------------------------ the resolver

\* The calls into ts-json-schema-generator are external and not wrapped in any
\* try/catch: each either returns or throws, and a throw leaves the hook.
\* `types` describes the type declarations the generator is pointed at:
\* whether a program can be built from them, and which of the model names the
\* run may reference they do not export.

\* tsj.createGenerator(config) throws when the declarations cannot be loaded.
createGeneratorThrows(types) == ~types.readable

\* The JSON Schema of an exported type: a deterministic function of its name.
JsonSchemaOf(modelName) == SchemaObject(<<"$ref">> \o modelName)

\* SchemaGenerator.createSchema(modelName): the schema of an exported type,
\* an exception for a name the declarations do not export.
createSchema(types, modelName) ==
  IF modelName \in types.missing
  THEN [threw |-> TRUE, schema |-> SchemaObject(<< >>)]
  ELSE [threw |-> FALSE, schema |-> JsonSchemaOf(modelName)]

ApplicationJson == "application/json"

\* { 'application/json': modelName }
JsonModels(modelName) == [k \in {ApplicationJson} |-> modelName]

\* --------------------------------------------------------------- state

VARIABLES
  functions,                      \* serverless.service.functions, in Object.keys order
  customDocumentation,            \* serverless.service.custom.documentation
  functionsMissingDocumentation,  \* this.functionsMissingDocumentation
  schemaGenerator,                \* this.schemaGenerator: 0 = undefined, n = the n-th generator created
  createGeneratorCalls,           \* number of tsj.createGenerator calls so far
  createSchemaCalls,              \* model names passed to createSchema, in call order
  apiTypes,                       \* the type declarations at typescriptApiModelPath, as tsj sees them
  pc,                             \* which hook is running / has run
  cursor,                         \* index of the event the forEach loops are at
  phase,                          \* position inside the loop body for that event
  error,                          \* the Error thrown by a hook, "none" if none
  output,                         \* serverless.processedInput.options.output (<<>> until the CLI step supplies it)
  files,                          \* the file system: path text -> content text
  declared                        \* functions and custom.documentation as configured, before any hook ran

vars == <<functions, customDocumentation, functionsMissingDocumentation,
          schemaGenerator, createGeneratorCalls, createSchemaCalls, apiTypes,
          pc, cursor, phase, error, output, files, declared>>

\* ------------------------------------------------------ generateSchema

\* The part of the state generateSchema reads and writes, as one record.
Tsj == [schemaGenerator |-> schemaGenerator,
        createGeneratorCalls |-> createGeneratorCalls,
        createSchemaCalls |-> createSchemaCalls,
        types |-> apiTypes]

\* generateSchema without the `this.schemaGenerator ||`: a new generator per call.
generateSchemaAlwaysCreates(tsj, modelName) ==
  IF createGeneratorThrows(tsj.types)
  THEN [tsj |-> [tsj EXCEPT !.createGeneratorCalls = @ + 1],
        threw |-> TRUE, schema |-> SchemaObject(<< >>)]
  ELSE LET r == createSchema(tsj.types, modelName)
       IN [tsj |-> [tsj EXCEPT !.schemaGenerator = tsj.createGeneratorCalls + 1,
                                !.createGeneratorCalls = @ + 1,
                                !.createSchemaCalls = Append(@, modelName)],
           threw |-> r.threw, schema |-> r.schema]

\* generateSchema(modelName): this.schemaGenerator = this.schemaGenerator ||
\* tsj.createGenerator(...); return this.schemaGenerator.createSchema(modelName).
\* Result: [tsj, threw, schema].  When createGenerator throws the assignment
\* never happens and createSchema is not reached.
generateSchema(tsj, modelName) ==
  LET create == tsj.schemaGenerator = 0
      created == IF create THEN tsj.createGeneratorCalls + 1 ELSE tsj.createGeneratorCalls
  IN IF create /\ createGeneratorThrows(tsj.types)
     THEN [tsj |-> [tsj EXCEPT !.createGeneratorCalls = created],
           threw |-> TRUE, schema |-> SchemaObject(<< >>)]
     ELSE LET r == createSchema(tsj.types, modelName)
          IN [tsj |-> [tsj EXCEPT !.schemaGenerator = IF create THEN created ELSE @,
                                   !.createGeneratorCalls = created,
                                   !.createSchemaCalls = Append(@, modelName)],
              threw |-> r.threw, schema |-> r.schema]

\* ------------------------------------------------------------ setModel

\* The merge without the customizer: lodash merges arrays index by index, so
\* the entry is merged into models[0].
mergeWithoutCustomizer(documentation, entry) ==
  IF "models" \in DOMAIN documentation /\ documentation["models"] # << >>
  THEN [k \in DOMAIN documentation |->
          IF k = "models"
          THEN [documentation["models"] EXCEPT ![1] = ObjectAssign(documentation["models"][1], entry)]
          ELSE documentation[k]]
  ELSE [k \in DOMAIN documentation \cup {"models"} |->
          IF k = "models" THEN << entry >> ELSE documentation[k]]

\* lodash mergeWith(custom, {documentation: {models: [entry]}}, customizer):
\* an array at `models` is replaced by objValue.concat(srcValue); with no
\* `models` key the default deep merge creates [] and merges the entry into it.
mergeWithModels(documentation, entry) ==
  IF Has(documentation, "models")
  THEN SetKey(documentation, "models", documentation["models"] \o <<entry>>)
  ELSE SetKey(documentation, "models", <<entry>>)

\* setModel(modelName); state threaded as [custom, tsj, threw].  generateSchema
\* is evaluated as an argument of mergeWith: when it throws nothing is merged.
setModel(st, modelName) ==
  LET g == generateSchema(st.tsj, modelName)
      entry == [name |-> modelName, contentType |-> ApplicationJson, schema |-> g.schema]
  IN IF g.threw
     THEN [st EXCEPT !.tsj = g.tsj, !.threw = TRUE]
     ELSE [st EXCEPT !.custom = mergeWithModels(st.custom, entry), !.tsj = g.tsj]

\* ----------------------------------------------------------- setModels

Documentation(fields) == [kind |-> "object", fields |-> fields]

\* SetDocumentation that keeps a value the user already wrote (defaults-style).
SetDocumentationKeepsExisting(httpEvent, key, value) ==
  IF key \in DOMAIN httpEvent.documentation.fields THEN httpEvent
  ELSE [httpEvent EXCEPT !.documentation =
          [kind |-> "object",
           fields |-> [k \in DOMAIN httpEvent.documentation.fields \cup {key} |->
                         IF k = key THEN value ELSE httpEvent.documentation.fields[k]]]]

SetDocumentation(httpEvent, key, value) ==
  [httpEvent EXCEPT !.documentation =
     Documentation(SetKey(httpEvent.documentation.fields, key, value))]

DeleteResponses == <<[statusCode |-> 204, responseModels |-> EmptyObject]>>

OkResponses(responseModelName) ==
  <<[statusCode |-> 200,
     responseBody |-> [description |-> ""],
     responseModels |-> JsonModels(responseModelName)]>>

\* case 'get' of the switch (also reached by fall-through)
setModelsGet(st, prefix) ==
  LET responseModelName == prefix \o ResponseSuffix
      s1 == setModel(st, responseModelName)
  IN IF s1.threw THEN s1
     ELSE [s1 EXCEPT !.httpEvent =
             SetDocumentation(s1.httpEvent, "methodResponses", OkResponses(responseModelName))]

\* cases 'patch' | 'put' | 'post', up to the missing break
setModelsRequest(st, prefix) ==
  LET requestModelName == prefix \o RequestBodySuffix
      s1 == setModel(st, requestModelName)
      e1 == SetDocumentation(s1.httpEvent, "requestModels", JsonModels(requestModelName))
      e2 == SetDocumentation(e1, "requestBody", [description |-> ""])
  IN IF s1.threw THEN s1 ELSE [s1 EXCEPT !.httpEvent = e2]

\* setModels(httpEvent, functionName); st = [httpEvent, custom, tsj, threw]
setModels(st, functionName) ==
  LET prefix == definitionPrefix(st.custom["apiNamespace"], functionName)
      method == toLowerCase(st.httpEvent.method)
  IN CASE method = <<"d","e","l","e","t","e">> ->
            [st EXCEPT !.httpEvent =
               SetDocumentation(st.httpEvent, "methodResponses", DeleteResponses)]
       [] method \in {<<"p","a","t","c","h">>, <<"p","u","t">>, <<"p","o","s","t">>} ->
            LET r == setModelsRequest(st, prefix)
            IN IF r.threw THEN r ELSE setModelsGet(r, prefix)
       [] method = <<"g","e","t">> ->
            setModelsGet(st, prefix)
       [] OTHER -> st

\* ----------------------------------------- setDefaultParamsDocumentation

\* documentedParams.find(p => p.name === name): index of the first match, 0 if none
FindParam(documentedParams, name) ==
  LET hits == {i \in 1..Len(documentedParams) :
                 Has(documentedParams[i], "name") /\ documentedParams[i]["name"] = name}
  IN IF hits = {} THEN 0 ELSE CHOOSE i \in hits : \A j \in hits : i <= j

\* The default with `required` hard-wired instead of taken from the parameter set.
paramDocumentationAlwaysRequired(param) ==
  [name |-> param.name, required |-> TRUE, schema |-> DefaultParamSchema]

paramDocumentationFromSls(param) ==
  [name |-> param.name, required |-> param.required, schema |-> DefaultParamSchema]

\* Only Object.assign(existing, fromSls): the defaults win.
mergeParamDefaultsWin(existing, fromSls) == ObjectAssign(existing, fromSls)

\* Object.assign(fromSls, existing); Object.assign(existing, fromSls)
mergeParam(existing, fromSls) ==
  ObjectAssign(existing, ObjectAssign(fromSls, existing))

\* One iteration of the forEach over Object.entries(params); st = [httpEvent, tsj, threw]
setDefaultParam(st, param, documentationKey) ==
  LET fields == st.httpEvent.documentation.fields
      documentedParams == IF Has(fields, documentationKey) THEN fields[documentationKey] ELSE <<>>
      i == FindParam(documentedParams, param.name)
      resolve == /\ i # 0
                 /\ Has(documentedParams[i], "schema")
                 /\ documentedParams[i]["schema"].typeof = "string"
      g == IF resolve THEN generateSchema(st.tsj, documentedParams[i]["schema"].value)
           ELSE [tsj |-> st.tsj, threw |-> FALSE, schema |-> DefaultParamSchema]
      existing == IF resolve THEN SetKey(documentedParams[i], "schema", g.schema)
                  ELSE documentedParams[i]
      result == IF i = 0
                THEN Append(documentedParams, paramDocumentationFromSls(param))
                ELSE [documentedParams EXCEPT
                        ![i] = mergeParam(existing, paramDocumentationFromSls(param))]
  IN [httpEvent |-> SetDocumentation(st.httpEvent, documentationKey,
                                     IF g.threw THEN documentedParams ELSE result),
      tsj |-> g.tsj,
      threw |-> g.threw]

RECURSIVE setDefaultParamsFrom(_, _, _, _)
setDefaultParamsFrom(st, params, documentationKey, n) ==
  IF n > Len(params) \/ st.threw THEN st
  ELSE setDefaultParamsFrom(setDefaultParam(st, params[n], documentationKey),
                            params, documentationKey, n + 1)

\* setDefaultParamsDocumentation(params, httpEvent, documentationKey)
setDefaultParamsDocumentation(st, params, documentationKey) ==
  setDefaultParamsFrom(st, params, documentationKey, 1)

\* ------------------------------------------------- postProcessOpenApi

\* YAML source text.  A text is either a plain scalar (a file name such as
\* openapi.yml is one) or the block mapping yaml.dump writes for an object.
PlainScalar(s) == [yaml |-> "scalar", scalar |-> s, mapping |-> <<>>]
MappingText(obj) == [yaml |-> "mapping", scalar |-> "", mapping |-> <<obj>>]

\* yaml.load(text): parses the text it is given; a plain scalar loads as a
\* string primitive, a mapping as an object.
yamlLoad(text) ==
  IF text.yaml = "scalar"
  THEN [typeof |-> "string", string |-> text.scalar, object |-> <<>>]
  ELSE [typeof |-> "object", string |-> "", object |-> text.mapping]

\* yaml.dump(obj)
yamlDump(obj) == MappingText(obj)

TargetOpenApiVersion == "3.1.0"

\* patchOpenApiVersion(openApi): openApi.openapi = '3.1.0'
patchOpenApiVersion(openApi) == SetKey(openApi, "openapi", TargetOpenApiVersion)

\* tagMethods(openApi)
tagMethods(openApi) ==
  LET tagName == openApi["info"].title
      tagged == SetKey(openApi, "tags",
                       <<[name |-> tagName, description |-> openApi["info"].description]>>)
      paths == openApi["paths"]
  IN SetKey(tagged, "paths",
            [p \in DOMAIN paths |->
               [m \in DOMAIN paths[p] |-> SetKey(paths[p][m], "tags", <<tagName>>)]])

\* fs.writeFileSync(path, text)
writeFileSync(fs, path, text) == SetKey(fs, path, text)

\* ------------------------------------------------------------- inputs

GET == <<"G","E","T">>
Get == <<"g","e","t">>
Post == <<"P","o","s","t">>
PUT == <<"P","U","T">>
Patch == <<"p","a","t","c","h">>
DELETE == <<"D","E","L","E","T","E">>
Delete == <<"D","e","l","e","t","e">>
HEAD == <<"H","E","A","D">>

Methods == {GET, Get, Post, PUT, Patch, DELETE, Delete, HEAD}

ApiNamespace == <<"N">>

\* Function names, in the order the service declares them.
FunctionNameOrder == << <<"a","b">>, <<"U">> >>

FooBar == <<"F","o","o",".","B","a","r">>
UResponse == definitionPrefix(ApiNamespace, <<"U">>) \o ResponseSuffix

Param(name, required) == [name |-> name, required |-> required]

AbsentDocumentation == [kind |-> "absent", fields |-> EmptyObject]
NullDocumentation == [kind |-> "null", fields |-> EmptyObject]
FalseDocumentation == [kind |-> "false", fields |-> EmptyObject]

IntegerSchema == SchemaObject(<<"type", "integer">>)

\* User-written pathParams lists (<< >> stands for: the key is absent).
PathParamDocs ==
  { << >>,
    << [name |-> "id", schema |-> SchemaString(FooBar)] >>,
    << [name |-> "id", required |-> FALSE, schema |-> IntegerSchema, description |-> "key"] >>,
    << [name |-> "other", required |-> TRUE, schema |-> IntegerSchema],
       [name |-> "id", required |-> FALSE] >>,
    << [name |-> "id", schema |-> SchemaString(FooBar)],
       [name |-> "slug", required |-> TRUE, schema |-> SchemaString(FooBar)] >> }

QueryParamDocs ==
  { << >>,
    << [name |-> "q", description |-> "query", schema |-> SchemaString(UResponse)] >> }

\* User-written request/response documentation that setModels may overwrite.
PriorBodies ==
  [requestModels |-> [k \in {"application/xml"} |-> FooBar],
   requestBody |-> [description |-> "old"],
   methodResponses |-> << [statusCode |-> 404, responseModels |-> EmptyObject],
                          [statusCode |-> 200, responseModels |-> JsonModels(FooBar)] >>]

WithParams(fields, key, docs) == IF docs = << >> THEN fields ELSE SetKey(fields, key, docs)

DocumentationFields ==
  { WithParams(WithParams(bodies, "pathParams", pp), "queryParams", qp) :
      bodies \in {EmptyObject, PriorBodies}, pp \in PathParamDocs, qp \in QueryParamDocs }

Documentations ==
  {AbsentDocumentation, NullDocumentation, FalseDocumentation}
    \cup {Documentation(f) : f \in DocumentationFields}

\* request.parameters.paths / querystrings, as Object.entries lists them
PathParameters ==
  { << >>, << Param("id", TRUE) >>, << Param("id", TRUE), Param("slug", FALSE) >> }
QuerystringParameters == { << >>, << Param("q", FALSE) >> }

HttpEvent(method, private, documentation, paths, querystrings) ==
  [http |-> << [method |-> method, private |-> private, documentation |-> documentation,
                paths |-> paths, querystrings |-> querystrings] >>]

\* an event without `http` (a schedule, a queue, ...)
OtherEvent == [http |-> << >>]

\* Every http event the input sets describe.
HttpEvents ==
  { HttpEvent(m, pr, d, ps, qs) :
      m \in Methods, pr \in BOOLEAN, d \in Documentations,
      ps \in PathParameters, qs \in QuerystringParameters }

\* The events multi-event services are built from: one per branch of the scan
\* and of the method switch.
EventPool ==
  { OtherEvent,
    HttpEvent(GET, FALSE, AbsentDocumentation, << >>, << >>),
    HttpEvent(Post, TRUE, AbsentDocumentation, << >>, << >>),
    HttpEvent(DELETE, FALSE, NullDocumentation, << >>, << >>),
    HttpEvent(Get, FALSE, FalseDocumentation, << >>, << >>),
    HttpEvent(PUT, TRUE, Documentation(EmptyObject), << >>, << >>),
    HttpEvent(GET, FALSE, Documentation(EmptyObject), << Param("id", TRUE) >>, << >>),
    HttpEvent(Post, FALSE,
              Documentation(SetKey(PriorBodies, "queryParams",
                                   << [name |-> "q", schema |-> SchemaString(UResponse)] >>)),
              << >>, << Param("q", FALSE) >>),
    HttpEvent(Delete, FALSE, Documentation(PriorBodies), << >>, << >>),
    HttpEvent(HEAD, FALSE, Documentation(EmptyObject), << >>, << >>) }

\* The names at the positions S of FunctionNameOrder, in that order.
RECURSIVE NamesAt(_)
NamesAt(S) ==
  IF S = {} THEN << >>
  ELSE LET i == CHOOSE x \in S : \A y \in S : x <= y
       IN << FunctionNameOrder[i] >> \o NamesAt(S \ {i})

FunctionNameLists ==
  { NamesAt(S) : S \in (SUBSET (1..Len(FunctionNameOrder))) \ {{}} }

\* The service whose i-th function is names[i] with the events owner maps to i.
Service(names, events, owner) ==
  [i \in 1..Len(names) |->
     [name |-> names[i],
      events |-> LET before == Cardinality({e \in 1..Len(events) : owner[e] < i})
                     mine == Cardinality({e \in 1..Len(events) : owner[e] = i})
                 IN SubSeq(events, before + 1, before + mine)]]

MultiServices ==
  UNION { UNION { { Service(names, events, owner) :
                      owner \in { o \in [1..n -> 1..Len(names)] :
                                    \A a, b \in 1..n : a <= b => o[a] <= o[b] } } :
                    names \in FunctionNameLists, events \in [1..n -> EventPool] } :
          n \in 0..MaxEvents }

SingleServices ==
  { << [name |-> FunctionNameOrder[i], events |-> << e >>] >> :
      i \in 1..Len(FunctionNameOrder), e \in HttpEvents }

Services == MultiServices \cup SingleServices

\* custom.documentation: always present when the hooks are registered
\* (the constructor disables the plugin otherwise); `models` is optional.
UserModel == [name |-> FooBar, contentType |-> ApplicationJson, schema |-> IntegerSchema]

CustomDocumentations ==
  { [k \in {"apiNamespace"} |-> ApiNamespace],
    [apiNamespace |-> ApiNamespace, models |-> << UserModel >>] }

\* The declarations at typescriptApiModelPath: complete; lacking the types
\* N.U.Response and Foo.Bar; not loadable at all.
ApiTypes ==
  { [readable |-> TRUE, missing |-> {}],
    [readable |-> TRUE, missing |-> {UResponse, FooBar}],
    [readable |-> FALSE, missing |-> {}] }

Operation(summary) == [k \in {"summary"} |-> summary]

OrdersPaths ==
  [p \in {"/orders"} |->
     [get |-> SetKey(Operation("list"), "tags", << "old", "legacy" >>),
      post |-> Operation("create")]]

GeneratedPaths == {EmptyObject, OrdersPaths}

OpenApiDocument(version, paths) ==
  [openapi |-> version,
   info |-> [title |-> "Orders API", description |-> "orders"],
   paths |-> paths]

\* What the external generator may have written.
GeneratedDocuments ==
  { OpenApiDocument(v, ps) : v \in {"3.0.0", TargetOpenApiVersion}, ps \in GeneratedPaths }

\* Values of the --output option.  The last one is a file name that is itself
\* a YAML flow mapping, the only kind yaml.load turns into an object.
OutputOptions ==
  { PlainScalar("openapi.yml"),
    MappingText(OpenApiDocument("2.0", OrdersPaths)) }

\* ------------------------------------------------------------ the scan

\* The (function index, event index) pairs in the order the nested forEach
\* loops of populateServerlessWithModels visit them.
RECURSIVE PositionsFrom(_, _)
PositionsFrom(fs, i) ==
  IF i > Len(fs) THEN << >>
  ELSE [j \in 1..Len(fs[i].events) |-> <<i, j>>] \o PositionsFrom(fs, i + 1)

Positions == PositionsFrom(functions, 1)

CurrentFunction == functions[Positions[cursor][1]]
CurrentEvent == CurrentFunction.events[Positions[cursor][2]]

\* if (httpEvent.documentation): only an object is truthy among the values modelled
Truthy(documentation) == documentation.kind = "object"

\* Classify with the negation of `private` dropped.
ClassifyPrivateOnly(event) ==
  IF event.http = << >> THEN "skip"
  ELSE LET httpEvent == event.http[1]
       IN IF Truthy(httpEvent.documentation) THEN "document"
          ELSE IF httpEvent.documentation.kind # "null" /\ httpEvent.private THEN "missing"
          ELSE "skip"

\* Classify without the `private` test.
ClassifyIgnoresPrivate(event) ==
  IF event.http = << >> THEN "skip"
  ELSE LET httpEvent == event.http[1]
       IN IF Truthy(httpEvent.documentation) THEN "document"
          ELSE IF httpEvent.documentation.kind # "null" THEN "missing"
          ELSE "skip"

\* The if / else-if of the loop body: what the scan does with one event.
Classify(event) ==
  IF event.http = << >> THEN "skip"
  ELSE LET httpEvent == event.http[1]
       IN IF Truthy(httpEvent.documentation) THEN "document"
          ELSE IF httpEvent.documentation.kind # "null" /\ ~httpEvent.private THEN "missing"
          ELSE "skip"

ReplaceCurrentHttpEvent(httpEvent) ==
  [functions EXCEPT ![Positions[cursor][1]].events[Positions[cursor][2]].http = << httpEvent >>]

ScanEvent ==
  /\ pc = "scan" /\ phase = "event" /\ cursor <= Len(Positions)
  /\ LET what == Classify(CurrentEvent)
     IN /\ phase' = IF what = "document" THEN "setModels" ELSE "event"
        /\ cursor' = IF what = "document" THEN cursor ELSE cursor + 1
        /\ functionsMissingDocumentation' =
             IF what = "missing"
             THEN Append(functionsMissingDocumentation, CurrentFunction.name)
             ELSE functionsMissingDocumentation
  /\ UNCHANGED <<functions, customDocumentation, schemaGenerator, createGeneratorCalls,
                 createSchemaCalls, apiTypes, pc, error, output, files, declared>>

\* this.setModels(httpEvent, functionName) inside the forEach.  A resolver call
\* that throws is caught nowhere: the exception leaves the loops and the hook,
\* and what setModels had written before the throw stays written.
SetModels ==
  /\ pc = "scan" /\ phase = "setModels"
  /\ LET r == setModels([httpEvent |-> CurrentEvent.http[1],
                         custom |-> customDocumentation, tsj |-> Tsj, threw |-> FALSE],
                        CurrentFunction.name)
     IN /\ functions' = ReplaceCurrentHttpEvent(r.httpEvent)
        /\ customDocumentation' = r.custom
        /\ schemaGenerator' = r.tsj.schemaGenerator
        /\ createGeneratorCalls' = r.tsj.createGeneratorCalls
        /\ createSchemaCalls' = r.tsj.createSchemaCalls
        /\ pc' = IF r.threw THEN "failed" ELSE pc
        /\ error' = IF r.threw THEN "SchemaResolutionError" ELSE error
        /\ phase' = IF r.threw THEN phase ELSE "pathParams"
  /\ UNCHANGED <<functionsMissingDocumentation, apiTypes, cursor, output, files, declared>>

\* One of the two this.setDefaultParamsDocumentation(...) calls of the forEach;
\* a resolver call that throws ends the hook here as well.
SetDefaultParamsDocumentation ==
  /\ pc = "scan" /\ phase \in {"pathParams", "queryParams"}
  /\ LET httpEvent == CurrentEvent.http[1]
         params == IF phase = "pathParams" THEN httpEvent.paths ELSE httpEvent.querystrings
         r == setDefaultParamsDocumentation(
                [httpEvent |-> httpEvent, tsj |-> Tsj, threw |-> FALSE], params, phase)
     IN /\ functions' = ReplaceCurrentHttpEvent(r.httpEvent)
        /\ schemaGenerator' = r.tsj.schemaGenerator
        /\ createGeneratorCalls' = r.tsj.createGeneratorCalls
        /\ createSchemaCalls' = r.tsj.createSchemaCalls
        /\ pc' = IF r.threw THEN "failed" ELSE pc
        /\ error' = IF r.threw THEN "SchemaResolutionError" ELSE error
        /\ phase' = IF r.threw THEN phase
                    ELSE IF phase = "pathParams" THEN "queryParams" ELSE "event"
        /\ cursor' = IF r.threw \/ phase = "pathParams" THEN cursor ELSE cursor + 1
  /\ UNCHANGED <<customDocumentation, functionsMissingDocumentation, apiTypes, output,
                 files, declared>>

\* assertAllFunctionsDocumented(): the error thrown, "none" if it returns
assertAllFunctionsDocumented(missing) ==
  IF missing # << >> THEN "MissingDocumentationError" ELSE "none"

AssertAllFunctionsDocumented ==
  /\ pc = "scan" /\ phase = "event" /\ cursor > Len(Positions)
  /\ error' = assertAllFunctionsDocumented(functionsMissingDocumentation)
  /\ pc' = IF error' = "none" THEN "documented" ELSE "failed"
  /\ UNCHANGED <<functions, customDocumentation, functionsMissingDocumentation,
                 schemaGenerator, createGeneratorCalls, createSchemaCalls, apiTypes,
                 cursor, phase,
                 output, files, declared>>

\* The external 'openapi:generate:serverless' step, run between the two hooks:
\* it writes an OpenAPI document to the --output path.
GenerateOpenApi ==
  /\ pc = "documented"
  /\ \E o \in OutputOptions, d \in GeneratedDocuments :
       /\ output' = << o >>
       /\ files' = writeFileSync(files, o, yamlDump(d))
  /\ pc' = "generated"
  /\ UNCHANGED <<functions, customDocumentation, functionsMissingDocumentation,
                 schemaGenerator, createGeneratorCalls, createSchemaCalls, apiTypes,
                 cursor, phase,
                 error, declared>>

\* postProcessOpenApi(): [files, error].  The file is 'use strict', so
\* openApi.openapi = ... on a string primitive throws a TypeError.
postProcessOpenApi(fs, outputFile) ==
  LET openApi == yamlLoad(outputFile)
  IN IF openApi.typeof # "object"
     THEN [files |-> fs, error |-> "TypeError"]
     ELSE [files |-> writeFileSync(fs, outputFile,
                       yamlDump(tagMethods(patchOpenApiVersion(openApi.object[1])))),
           error |-> "none"]

PostProcessOpenApi ==
  /\ pc = "generated"
  /\ LET r == postProcessOpenApi(files, output[1])
     IN /\ files' = r.files
        /\ error' = r.error
        /\ pc' = IF r.error = "none" THEN "finalized" ELSE "failed"
  /\ UNCHANGED <<functions, customDocumentation, functionsMissingDocumentation,
                 schemaGenerator, createGeneratorCalls, createSchemaCalls, apiTypes,
                 cursor, phase,
                 output, declared>>

Init ==
  /\ functions \in Services
  /\ customDocumentation \in CustomDocumentations
  /\ functionsMissingDocumentation = << >>
  /\ schemaGenerator = 0
  /\ createGeneratorCalls = 0
  /\ createSchemaCalls = << >>
  /\ apiTypes \in ApiTypes
  /\ pc = "scan"
  /\ cursor = 1
  /\ phase = "event"
  /\ error = "none"
  /\ output = << >>
  /\ files = EmptyObject
  /\ declared = [functions |-> functions, documentation |-> customDocumentation]

Next ==
  \/ ScanEvent
  \/ SetModels
  \/ SetDefaultParamsDocumentation
  \/ AssertAllFunctionsDocumented
  \/ GenerateOpenApi
  \/ PostProcessOpenApi

Spec == Init /\ [][Next]_vars

\* ------------------------------------------------- vocabulary of the claims

Range(seq) == {seq[i] : i \in 1..Len(seq)}

Scanning == pc = "scan" /\ cursor <= Len(Positions)

\* The http event at the cursor, in the functions fs (the loops never change
\* how many functions or events there are, so Positions fits fs too).
HttpEventAtCursor(fs) == fs[Positions[cursor][1]].events[Positions[cursor][2]].http[1]

FieldsAtCursor(fs) == HttpEventAtCursor(fs).documentation.fields

DeclaredEvent(k) == declared.functions[Positions[k][1]].events[Positions[k][2]]

\* custom.documentation.models, empty when the key is absent
Models(documentation) ==
  IF Has(documentation, "models") THEN documentation["models"] ELSE << >>

\* An http event whose `documentation` key is absent and which is not private.
NeedsDocumentation(event) ==
  /\ event.http # << >>
  /\ event.http[1].documentation.kind = "absent"
  /\ ~event.http[1].private

Offenders ==
  { declared.functions[i].name :
      i \in { f \in 1..Len(declared.functions) :
                \E j \in 1..Len(declared.functions[f].events) :
                   NeedsDocumentation(declared.functions[f].events[j]) } }

\* The spellings of each method among Methods, written out.
WriteSpellings == {Post, PUT, Patch}
GetSpellings == {GET, Get}
DeleteSpellings == {DELETE, Delete}

\* `<apiNamespace>.<PascalCase(functionName)>` for the two function names, written out.
ClaimedPrefix(functionName) ==
  IF functionName = <<"a","b">> THEN <<"N",".","A","b">> ELSE <<"N",".","U">>

ClaimedModel(modelName) ==
  [name |-> modelName, contentType |-> "application/json", schema |-> JsonSchemaOf(modelName)]

\* A resolver call threw during the scan: the hook ended there, before the gate.
ResolverFailed == error = "SchemaResolutionError"

\* C1 as stated: whenever some non-private http event lacks the `documentation` key, the
\* scan ends in the missing-documentation error; the error is raised only once
\* the loops have visited every event of every function; and the list names
\* every function that has such an event, each as soon as the event is passed.
C1_Original ==
  /\ error = "MissingDocumentationError" => cursor > Len(Positions)
  /\ \A k \in 1..Len(Positions) :
       (k < cursor /\ NeedsDocumentation(DeclaredEvent(k)))
         => declared.functions[Positions[k][1]].name \in Range(functionsMissingDocumentation)
  /\ (pc # "scan" /\ Offenders # {})
       => /\ error = "MissingDocumentationError"
          /\ Offenders \subseteq Range(functionsMissingDocumentation)

\* C1 amended: the missing-documentation error is raised only once the loops
\* have visited every event of every function; the list names every function
\* with a non-private event lacking the `documentation` key, each as soon as
\* the event is passed; and unless a resolver call threw during the scan, a
\* run with at least one such event ends in the missing-documentation error
\* listing all of them.  A resolver call that throws ends the run on the spot,
\* inside the loops, with the resolver's error: the gate is not reached and the
\* run ends in that error alone, whatever offenders the functions hold.
C1_AllOffendersReported ==
  /\ error = "MissingDocumentationError" => cursor > Len(Positions)
  /\ \A k \in 1..Len(Positions) :
       (k < cursor /\ NeedsDocumentation(DeclaredEvent(k)))
         => declared.functions[Positions[k][1]].name \in Range(functionsMissingDocumentation)
  /\ (pc # "scan" /\ Offenders # {} /\ ~ResolverFailed)
       => /\ error = "MissingDocumentationError"
          /\ Offenders \subseteq Range(functionsMissingDocumentation)
  /\ ResolverFailed
       => /\ pc = "failed"
          /\ cursor <= Len(Positions)
          /\ phase # "event"
          /\ DeclaredEvent(cursor).http # << >>
          /\ DeclaredEvent(cursor).http[1].documentation.kind = "object"

\* C1 witness: the scan failed and the error lists two distinct offending functions.
C1_Witness ==
  /\ error = "MissingDocumentationError"
  /\ Cardinality(Offenders) = 2
  /\ Cardinality(Range(functionsMissingDocumentation)) = 2

\* An event the original C2 exempts: documentation explicitly null, or private.
ExemptAsClaimed(event) ==
  /\ event.http # << >>
  /\ (event.http[1].documentation.kind = "null" \/ event.http[1].private)

\* An event the scan does exempt: documentation explicitly null, or private
\* without a documentation object.
Exempt(event) ==
  /\ event.http # << >>
  /\ \/ event.http[1].documentation.kind = "null"
     \/ event.http[1].private /\ event.http[1].documentation.kind # "object"

\* What "no synthesis, no failure" means for the step that handles an event.
NothingSynthesized ==
  /\ functions' = functions
  /\ customDocumentation' = customDocumentation
  /\ createSchemaCalls' = createSchemaCalls
  /\ functionsMissingDocumentation' = functionsMissingDocumentation

\* C2 as stated: an event with documentation null, or marked private, gets no
\* model synthesis and does not add to the missing list.
C2_Original ==
  [][(Scanning /\ ExemptAsClaimed(CurrentEvent)) => NothingSynthesized]_vars

\* C2 amended: an event with documentation null, or marked private and without
\* a documentation object, is passed in one step that registers no model, sets
\* no documentation field, calls no resolver and adds nothing to the missing list.
C2_ExemptEventsSkipped ==
  [][(Scanning /\ Exempt(CurrentEvent))
       => /\ NothingSynthesized
          /\ cursor' = cursor + 1
          /\ phase' = "event"]_vars

\* C2 witness: a private event without documentation and a null-documented
\* event have both been passed, and nothing was synthesized or recorded.
C2_Witness ==
  /\ pc = "scan" /\ cursor = 3 /\ phase = "event"
  /\ \E k \in 1..2 : /\ DeclaredEvent(k).http # << >>
                     /\ DeclaredEvent(k).http[1].private
                     /\ DeclaredEvent(k).http[1].documentation.kind = "absent"
  /\ \E k \in 1..2 : /\ DeclaredEvent(k).http # << >>
                     /\ DeclaredEvent(k).http[1].documentation.kind = "null"
  /\ functions = declared.functions
  /\ customDocumentation = declared.documentation
  /\ functionsMissingDocumentation = << >>

\* The step that runs setModels for the event at the cursor.
SetModelsStep == pc = "scan" /\ phase = "setModels"

\* The same step when setModels returns, that is when no resolver call threw.
SetModelsReturns == SetModelsStep /\ ~ResolverFailed'

\* C3: for POST/PUT/PATCH in any spelling a setModels call that returns appends the Request.Body and
\* then the Response model to the registry and sets requestModels, requestBody
\* and methodResponses (one 200 entry naming the Response model); for GET it
\* appends only the Response model and sets only methodResponses.
C3_WriteAndGetModels ==
  [][SetModelsReturns =>
       LET before == HttpEventAtCursor(functions)
           fields == FieldsAtCursor(functions)
           after == FieldsAtCursor(functions')
           prefix == ClaimedPrefix(CurrentFunction.name)
           request == prefix \o RequestBodySuffix
           response == prefix \o ResponseSuffix
           ok == << [statusCode |-> 200,
                     responseBody |-> [description |-> ""],
                     responseModels |-> [k \in {"application/json"} |-> response]] >>
       IN /\ before.method \in WriteSpellings =>
               /\ Models(customDocumentation') =
                    Models(customDocumentation) \o << ClaimedModel(request), ClaimedModel(response) >>
               /\ DOMAIN after = DOMAIN fields \cup {"requestModels", "requestBody", "methodResponses"}
               /\ after["requestModels"] = [k \in {"application/json"} |-> request]
               /\ after["requestBody"] = [description |-> ""]
               /\ after["methodResponses"] = ok
               /\ \A k \in DOMAIN fields \ {"requestModels", "requestBody", "methodResponses"} :
                     after[k] = fields[k]
          /\ before.method \in GetSpellings =>
               /\ Models(customDocumentation') =
                    Models(customDocumentation) \o << ClaimedModel(response) >>
               /\ DOMAIN after = DOMAIN fields \cup {"methodResponses"}
               /\ after["methodResponses"] = ok
               /\ \A k \in DOMAIN fields \ {"methodResponses"} : after[k] = fields[k]]_vars

\* C3 witness: setModels has just run for an upper-case PUT whose user-written
\* requestModels and methodResponses it replaced.
C3_Witness ==
  /\ pc = "scan" /\ phase = "pathParams"
  /\ DeclaredEvent(cursor).http[1].method = PUT
  /\ Has(DeclaredEvent(cursor).http[1].documentation.fields, "requestModels")
  /\ FieldsAtCursor(functions)["requestModels"] =
       [k \in {"application/json"} |->
          ClaimedPrefix(CurrentFunction.name) \o RequestBodySuffix]
  /\ Len(FieldsAtCursor(functions)["methodResponses"]) = 1

\* C4: for DELETE in any spelling setModels leaves methodResponses as exactly
\* the single entry {statusCode 204, responseModels {}}, whatever it held
\* before, changes no other documentation field, leaves the registry as it was
\* and calls no resolver.
C4_DeleteResponse ==
  [][(SetModelsStep /\ HttpEventAtCursor(functions).method \in DeleteSpellings) =>
       LET fields == FieldsAtCursor(functions)
           after == FieldsAtCursor(functions')
       IN /\ DOMAIN after = DOMAIN fields \cup {"methodResponses"}
          /\ after["methodResponses"] = << [statusCode |-> 204, responseModels |-> EmptyObject] >>
          /\ \A k \in DOMAIN fields \ {"methodResponses"} : after[k] = fields[k]
          /\ customDocumentation' = customDocumentation
          /\ createSchemaCalls' = createSchemaCalls
          /\ createGeneratorCalls' = createGeneratorCalls]_vars

\* C4 witness: setModels has just run for a DELETE event whose user-written
\* methodResponses had two entries; one 204 entry is left.
C4_Witness ==
  /\ pc = "scan" /\ phase = "pathParams"
  /\ DeclaredEvent(cursor).http[1].method \in DeleteSpellings
  /\ Has(DeclaredEvent(cursor).http[1].documentation.fields, "methodResponses")
  /\ Len(DeclaredEvent(cursor).http[1].documentation.fields["methodResponses"]) = 2
  /\ FieldsAtCursor(functions)["methodResponses"] =
       << [statusCode |-> 204, responseModels |-> EmptyObject] >>

\* The step that runs setDefaultParamsDocumentation for one documentation key.
ParamsStep == pc = "scan" /\ phase \in {"pathParams", "queryParams"}

\* The same step when the call returns, that is when no resolver call threw.
ParamsReturns == ParamsStep /\ ~ResolverFailed'

\* The parameter set the step reads, as Object.entries lists it.
StepParams ==
  IF phase = "pathParams" THEN HttpEventAtCursor(functions).paths
  ELSE HttpEventAtCursor(functions).querystrings

\* documentation[key] in the functions fs, empty when the key is absent
ParamDocs(fs, key) ==
  IF Has(FieldsAtCursor(fs), key) THEN FieldsAtCursor(fs)[key] ELSE << >>

Named(paramDoc, name) == Has(paramDoc, "name") /\ paramDoc["name"] = name

IsDocumented(list, name) == \E i \in 1..Len(list) : Named(list[i], name)

FirstNamed(list, name) ==
  CHOOSE i \in 1..Len(list) : Named(list[i], name) /\ \A j \in 1..(i - 1) : ~Named(list[j], name)

HasStringSchema(paramDoc) == Has(paramDoc, "schema") /\ paramDoc["schema"].typeof = "string"

ClaimedDefault(param) ==
  [name |-> param.name, required |-> param.required,
   schema |-> [typeof |-> "object", value |-> <<"type", "string">>]]

\* C5: by a call that returns, the parameters that have no ParamDoc of their
\* name are appended, in order, as {name, required, schema {type string}} after the existing
\* entries; the list is created when a parameter needs it; the resolver is
\* called only for parameters whose existing ParamDoc has a string schema;
\* with no prior list the result is exactly the defaults, one per parameter.
C5_DefaultsAppended ==
  [][ParamsReturns =>
       LET before == ParamDocs(functions, phase)
           after == ParamDocs(functions', phase)
           fresh == SelectSeq(StepParams, LAMBDA p : ~IsDocumented(before, p.name))
           resolved == { i \in 1..Len(StepParams) :
                           /\ IsDocumented(before, StepParams[i].name)
                           /\ HasStringSchema(before[FirstNamed(before, StepParams[i].name)]) }
       IN /\ Len(after) = Len(before) + Len(fresh)
          /\ \A i \in 1..Len(fresh) : after[Len(before) + i] = ClaimedDefault(fresh[i])
          /\ Has(FieldsAtCursor(functions'), phase)
               <=> (Has(FieldsAtCursor(functions), phase) \/ StepParams # << >>)
          /\ Len(createSchemaCalls') = Len(createSchemaCalls) + Cardinality(resolved)
          /\ before = << >> =>
               /\ after = [i \in 1..Len(StepParams) |-> ClaimedDefault(StepParams[i])]
               /\ \A i, j \in 1..Len(after) : after[i]["name"] = after[j]["name"] => i = j
               /\ createSchemaCalls' = createSchemaCalls]_vars

\* C5 witness: the path parameters {id: true, slug: false} of an event without
\* pathParams have just been normalized to the two defaults.
C5_Witness ==
  /\ pc = "scan" /\ phase = "queryParams"
  /\ ~Has(DeclaredEvent(cursor).http[1].documentation.fields, "pathParams")
  /\ ParamDocs(functions, "pathParams") =
       << [name |-> "id", required |-> TRUE, schema |-> SchemaObject(<<"type", "string">>)],
          [name |-> "slug", required |-> FALSE, schema |-> SchemaObject(<<"type", "string">>)] >>

\* C8: in a call that returns, a parameter that already has a ParamDoc updates
\* that entry where it stands: every field the user wrote keeps its value, except that a string
\* schema becomes the schema resolved for that name; name, required and schema
\* are filled in from the default only where the entry lacks them; entries no
\* parameter names are untouched and no existing entry moves or disappears.
C8_ExistingParamMerged ==
  [][ParamsReturns =>
       LET before == ParamDocs(functions, phase)
           after == ParamDocs(functions', phase)
           touched == { FirstNamed(before, StepParams[n].name) :
                          n \in { m \in 1..Len(StepParams) :
                                    IsDocumented(before, StepParams[m].name) } }
       IN /\ Len(after) >= Len(before)
          /\ (\A n \in 1..Len(StepParams) : IsDocumented(before, StepParams[n].name))
               => Len(after) = Len(before)
          /\ \A i \in (1..Len(before)) \ touched : after[i] = before[i]
          /\ \A n \in 1..Len(StepParams) :
               IsDocumented(before, StepParams[n].name) =>
                 LET i == FirstNamed(before, StepParams[n].name)
                     old == before[i]
                     new == after[i]
                 IN /\ DOMAIN new = DOMAIN old \cup {"name", "required", "schema"}
                    /\ \A k \in DOMAIN old :
                         IF k = "schema" /\ old[k].typeof = "string"
                         THEN new[k] = JsonSchemaOf(old[k].value)
                         ELSE new[k] = old[k]
                    /\ ~Has(old, "required") => new["required"] = StepParams[n].required
                    /\ ~Has(old, "schema") =>
                         new["schema"] = [typeof |-> "object", value |-> <<"type", "string">>]]_vars

\* C8 witness: pathParams [{id, schema "Foo.Bar"}, {slug, required true, schema
\* "Foo.Bar"}] merged with the parameters {id: true, slug: false}: the schemas
\* are resolved, id gains required true, slug keeps the user's required true.
C8_Witness ==
  /\ pc = "scan" /\ phase = "queryParams"
  /\ Has(DeclaredEvent(cursor).http[1].documentation.fields, "pathParams")
  /\ DeclaredEvent(cursor).http[1].documentation.fields["pathParams"] =
       << [name |-> "id", schema |-> SchemaString(FooBar)],
          [name |-> "slug", required |-> TRUE, schema |-> SchemaString(FooBar)] >>
  /\ DeclaredEvent(cursor).http[1].paths = << Param("id", TRUE), Param("slug", FALSE) >>
  /\ ParamDocs(functions, "pathParams") =
       << [name |-> "id", required |-> TRUE, schema |-> JsonSchemaOf(FooBar)],
          [name |-> "slug", required |-> TRUE, schema |-> JsonSchemaOf(FooBar)] >>

\* The ParamDocs whose string schema the run has replaced by a resolved schema.
ResolvedParamDocs ==
  UNION { UNION { { <<k, key, i>> :
                      i \in { x \in 1..Len(DeclaredEvent(k).http[1].documentation.fields[key]) :
                                LET was == DeclaredEvent(k).http[1].documentation.fields[key][x]
                                    now == functions[Positions[k][1]].events[Positions[k][2]]
                                             .http[1].documentation.fields[key][x]
                                IN HasStringSchema(was) /\ ~HasStringSchema(now) } } :
                    key \in {"pathParams", "queryParams"}
                              \cap DOMAIN DeclaredEvent(k).http[1].documentation.fields } :
          k \in { x \in 1..Len(Positions) : DeclaredEvent(x).http # << >> } }

\* C9 as stated: the resolver is invoked at most once per distinct model name.
C9_Original ==
  \A i, j \in 1..Len(createSchemaCalls) :
     createSchemaCalls[i] = createSchemaCalls[j] => i = j

\* C9 amended: what is memoized is the schema generator, created at most once,
\* on the first resolution, and reused afterwards (a createGenerator call that
\* throws ends the run and leaves no generator); createSchema itself is
\* invoked once per reference, that is once for every model registered, once
\* for every string-schema ParamDoc resolved, and once more for the reference
\* whose resolution threw, if one did.
C9_GeneratorCreatedOnce ==
  /\ createGeneratorCalls <= 1
  /\ schemaGenerator = IF apiTypes.readable THEN createGeneratorCalls ELSE 0
  /\ createSchemaCalls # << >> <=> schemaGenerator = 1
  /\ (createGeneratorCalls = 1 /\ schemaGenerator = 0) => ResolverFailed
  /\ Len(createSchemaCalls) =
       (Len(Models(customDocumentation)) - Len(Models(declared.documentation)))
         + Cardinality(ResolvedParamDocs)
         + (IF ResolverFailed /\ schemaGenerator = 1 THEN 1 ELSE 0)
  /\ (ResolverFailed /\ schemaGenerator = 1)
       => createSchemaCalls[Len(createSchemaCalls)] \in apiTypes.missing

\* C9 witness: one generator was created and the same model name was resolved twice.
C9_Witness ==
  /\ createGeneratorCalls = 1
  /\ \E i, j \in 1..Len(createSchemaCalls) :
        i < j /\ createSchemaCalls[i] = createSchemaCalls[j]

\* C10: every step leaves the registry as it was or extends it: the earlier
\* entries stay at their indices unchanged, and the new entries are, one per
\* resolver call that returned in the setModels step and in call order,
\* {name, contentType application/json, schema resolved for name}; a setModel
\* call whose resolution throws adds nothing.
C10_RegistryAppendOnly ==
  [][LET old == Models(customDocumentation)
         new == Models(customDocumentation')
         made == SubSeq(createSchemaCalls', Len(createSchemaCalls) + 1, Len(createSchemaCalls'))
         calls == IF ResolverFailed' /\ made # << >>
                  THEN SubSeq(made, 1, Len(made) - 1) ELSE made
     IN /\ Len(new) >= Len(old)
        /\ SubSeq(new, 1, Len(old)) = old
        /\ SetModelsStep => new = old \o [i \in 1..Len(calls) |-> ClaimedModel(calls[i])]
        /\ ~SetModelsStep => new = old]_vars

\* C10 witness: the user's model is still first in the registry, followed by
\* two separate entries of the same name.
C10_Witness ==
  /\ Len(Models(customDocumentation)) = 3
  /\ Models(customDocumentation)[1] = UserModel
  /\ Models(customDocumentation)[2].name = Models(customDocumentation)[3].name

\* The document stored at the output path, << >> when the file holds none.
PersistedDocument(fs) ==
  IF output # << >> /\ Has(fs, output[1]) THEN fs[output[1]].mapping ELSE << >>

\* C6: the finalizer rewrites the document the generator wrote at the output
\* path: tags becomes [{name: info.title, description: info.description}],
\* every operation under every path gets tags [info.title], and the result is
\* stored at the same path.
C6_FinalizerTagsDocument ==
  [][pc = "generated" =>
       LET written == PersistedDocument(files)
           stored == PersistedDocument(files')
       IN /\ written # << >> /\ stored # << >>
          /\ Has(stored[1], "tags")
          /\ stored[1]["tags"] = << [name |-> written[1]["info"].title,
                                     description |-> written[1]["info"].description] >>
          /\ stored[1]["info"] = written[1]["info"]
          /\ DOMAIN stored[1]["paths"] = DOMAIN written[1]["paths"]
          /\ \A p \in DOMAIN written[1]["paths"] :
               /\ DOMAIN stored[1]["paths"][p] = DOMAIN written[1]["paths"][p]
               /\ \A m \in DOMAIN written[1]["paths"][p] :
                    /\ Has(stored[1]["paths"][p][m], "tags")
                    /\ stored[1]["paths"][p][m]["tags"] = << written[1]["info"].title >>]_vars

\* C7: once the finalizer has run, the document at the output path has
\* openapi = 3.1.0, whatever version the generator wrote.
C7_FinalizerStampsVersion ==
  (output # << >> /\ pc \in {"finalized", "failed"})
    => /\ PersistedDocument(files) # << >>
       /\ PersistedDocument(files)[1]["openapi"] = "3.1.0"

====
